---------------------------- MODULE Spec2Model ----------------------------
(***************************************************************************)
(* A model of src/fq.rs: the field GF(q) of the Jubjub curve's base field, *)
(* q = 0x73eda753299d7d483339d80809a1d80553bda402fffe5bfeffffffff00000001, *)
(* with elements kept in Montgomery form as four 64-bit limbs.             *)
(*                                                                         *)
(* Representation.  TLC's integers are 32 bits wide, so a u64 is modelled  *)
(* as the tuple of its four 16-bit digits, least significant first, and an *)
(* Fq as the tuple of its four u64 limbs, least significant first, exactly *)
(* as `Fq(pub(crate) [u64; 4])`.  A byte array is a sequence of 32 numbers *)
(* in 0..255.  Every primitive (adc, sbb, mac, wrapping_mul, the shifts    *)
(* and the masks) is computed at its full width on these digits.           *)
(***************************************************************************)
EXTENDS Integers, Sequences, FiniteSets, TLC

\* Sequencing: the value of `then`, with `first` evaluated before it.  TLC
\* evaluates an argument when it is first used; a loop or a body evaluates
\* the state it starts from on entry, so that a sequence of n steps is not
\* evaluated n steps deep.
Seq2(first, then) == IF first = first THEN then ELSE then

\* The u64 written in hexadecimal as d3 d2 d1 d0 (most significant first).
W(d3, d2, d1, d0) == <<d0, d1, d2, d3>>

\* The u64 constants 0, 1 and u64::max_value().
U0 == <<0, 0, 0, 0>>
U1 == <<1, 0, 0, 0>>
UMax == <<65535, 65535, 65535, 65535>>

\* a < b on u64.
Lt64(a, b) ==
    IF a[4] # b[4] THEN a[4] < b[4]
    ELSE IF a[3] # b[3] THEN a[3] < b[3]
    ELSE IF a[2] # b[2] THEN a[2] < b[2]
    ELSE a[1] < b[1]

\* Bitwise AND and OR of two 16-bit digits.
RECURSIVE AndDigit(_, _)
AndDigit(x, y) ==
    IF x = 0 \/ y = 0 THEN 0
    ELSE IF y = 65535 THEN x
    ELSE IF x = 65535 THEN y
    ELSE (x % 2) * (y % 2) + 2 * AndDigit(x \div 2, y \div 2)

RECURSIVE OrDigit(_, _)
OrDigit(x, y) ==
    IF x = 0 THEN y
    ELSE IF y = 0 THEN x
    ELSE (IF x % 2 = 1 \/ y % 2 = 1 THEN 1 ELSE 0) + 2 * OrDigit(x \div 2, y \div 2)

\* a & b, a | b on u64.
And64(a, b) ==
    <<AndDigit(a[1], b[1]), AndDigit(a[2], b[2]), AndDigit(a[3], b[3]), AndDigit(a[4], b[4])>>

Or64(a, b) ==
    <<OrDigit(a[1], b[1]), OrDigit(a[2], b[2]), OrDigit(a[3], b[3]), OrDigit(a[4], b[4])>>

\* A shift that loses the bit it should carry into the next limb.
Shr63Lost(a) == U0

\* a >> 63 and a << 1 on u64 (the shift left drops the top bit).
Shr63(a) == <<a[4] \div 32768, 0, 0, 0>>

Shl1(a) ==
    <<(2 * a[1]) % 65536,
      (2 * a[2] + a[1] \div 32768) % 65536,
      (2 * a[3] + a[2] \div 32768) % 65536,
      (2 * a[4] + a[3] \div 32768) % 65536>>

\* The 32-bit product of two 16-bit digits as <<low digit, high digit>>.
DigitMul(x, y) ==
    LET p == x * (y \div 256)
        q == x * (y % 256)
        s == q + (p % 256) * 256
    IN  <<s % 65536, p \div 256 + s \div 65536>>

\* The eight column sums of the sixteen digit products p of two u64, given
\* in the order b[1]*c[1..4], b[2]*c[1..4], b[3]*c[1..4], b[4]*c[1..4]:
\* column k collects the low digits of the products of weight 2^(16k) and
\* the high digits of those of weight 2^(16(k-1)).
ColumnSums(p) ==
    <<p[1][1],
      p[1][2] + p[2][1] + p[5][1],
      p[2][2] + p[5][2] + p[3][1] + p[6][1] + p[9][1],
      p[3][2] + p[6][2] + p[9][2] + p[4][1] + p[7][1] + p[10][1] + p[13][1],
      p[4][2] + p[7][2] + p[10][2] + p[13][2] + p[8][1] + p[11][1] + p[14][1],
      p[8][2] + p[11][2] + p[14][2] + p[12][1] + p[15][1],
      p[12][2] + p[15][2] + p[16][1],
      p[16][2]>>

\* The column sums of the schoolbook product b * c of two u64.
Columns(b, c) ==
    ColumnSums(
        <<DigitMul(b[1], c[1]), DigitMul(b[1], c[2]), DigitMul(b[1], c[3]), DigitMul(b[1], c[4]),
          DigitMul(b[2], c[1]), DigitMul(b[2], c[2]), DigitMul(b[2], c[3]), DigitMul(b[2], c[4]),
          DigitMul(b[3], c[1]), DigitMul(b[3], c[2]), DigitMul(b[3], c[3]), DigitMul(b[3], c[4]),
          DigitMul(b[4], c[1]), DigitMul(b[4], c[2]), DigitMul(b[4], c[3]), DigitMul(b[4], c[4])>>)

\* The column sums t with the u64 a and carry added into the low four.
AddLow(t, a, carry) ==
    <<t[1] + a[1] + carry[1], t[2] + a[2] + carry[2],
      t[3] + a[3] + carry[3], t[4] + a[4] + carry[4], t[5], t[6], t[7], t[8]>>

\* Carry propagation through eight column sums: the 128-bit value they
\* denote, as <<low u64, high u64>>.
Carry8(t) ==
    LET c1 == t[2] + t[1] \div 65536
        c2 == t[3] + c1 \div 65536
        c3 == t[4] + c2 \div 65536
        c4 == t[5] + c3 \div 65536
        c5 == t[6] + c4 \div 65536
        c6 == t[7] + c5 \div 65536
        c7 == t[8] + c6 \div 65536
    IN  <<<<t[1] % 65536, c1 % 65536, c2 % 65536, c3 % 65536>>,
          <<c4 % 65536, c5 % 65536, c6 % 65536, c7 % 65536>>>>

\* a.wrapping_mul(b) on u64: the low 64 bits of the product.
WrappingMul(a, b) == Carry8(Columns(a, b))[1]

\* adc that forgets the carry handed in.
adcNoCarry(a, b, carry) ==
    LET s1 == a[1] + b[1]
        s2 == a[2] + b[2] + s1 \div 65536
        s3 == a[3] + b[3] + s2 \div 65536
        s4 == a[4] + b[4] + s3 \div 65536
    IN  <<<<s1 % 65536, s2 % 65536, s3 % 65536, s4 % 65536>>,
          <<s4 \div 65536, 0, 0, 0>>>>

\* fn adc: a + b + carry in 128 bits, as <<result, new carry>>.
adc(a, b, carry) ==
    LET s1 == a[1] + b[1] + carry[1]
        s2 == a[2] + b[2] + carry[2] + s1 \div 65536
        s3 == a[3] + b[3] + carry[3] + s2 \div 65536
        s4 == a[4] + b[4] + carry[4] + s3 \div 65536
    IN  <<<<s1 % 65536, s2 % 65536, s3 % 65536, s4 % 65536>>,
          <<s4 \div 65536, 0, 0, 0>>>>

\* fn sbb: a - (b + (borrow >> 63)) wrapping in 128 bits, as
\* <<result, new borrow>>; the new borrow is 0 or u64::max_value().
sbb(a, b, borrow) ==
    LET s1 == a[1] - b[1] - borrow[4] \div 32768
        s2 == a[2] - b[2] - (IF s1 < 0 THEN 1 ELSE 0)
        s3 == a[3] - b[3] - (IF s2 < 0 THEN 1 ELSE 0)
        s4 == a[4] - b[4] - (IF s3 < 0 THEN 1 ELSE 0)
    IN  <<<<s1 % 65536, s2 % 65536, s3 % 65536, s4 % 65536>>,
          IF s4 < 0 THEN UMax ELSE U0>>

\* mac that forgets the carry handed in: a + (b * c).
macNoCarry(a, b, c, carry) == Carry8(AddLow(Columns(b, c), a, U0))

\* fn mac: a + (b * c) + carry in 128 bits, as <<result, new carry>>.
mac(a, b, c, carry) == Carry8(AddLow(Columns(b, c), a, carry))

\* const MODULUS
MODULUS ==
    <<W(\hffff, \hffff, \h0000, \h0001),
      W(\h53bd, \ha402, \hfffe, \h5bfe),
      W(\h3339, \hd808, \h09a1, \hd805),
      W(\h73ed, \ha753, \h299d, \h7d48)>>

\* INV without the negation: q^{-1} mod 2^64.
INVPositive == W(\h0000, \h0001, \h0000, \h0001)

\* const INV = -(q^{-1} mod 2^64) mod 2^64
INV == W(\hffff, \hfffe, \hffff, \hffff)

\* const R = 2^256 mod q
R ==
    <<W(\h0000, \h0001, \hffff, \hfffe),
      W(\h5884, \hb7fa, \h0003, \h4802),
      W(\h998c, \h4fef, \hecbc, \h4ff5),
      W(\h1824, \hb159, \hacc5, \h056f)>>

\* const R2 = 2^512 mod q
R2 ==
    <<W(\hc999, \he990, \hf3f2, \h9c6d),
      W(\h2b6c, \hedcb, \h8792, \h5c23),
      W(\h05d3, \h1496, \h7254, \h398f),
      W(\h0748, \hd9d9, \h9f59, \hff11)>>

\* S written one too small.
SShort == 32 - 1

\* const S
S == 32

\* const ROOT_OF_UNITY
ROOT_OF_UNITY ==
    <<W(\hb9b5, \h8d8c, \h5f0e, \h466a),
      W(\h5b1b, \h4c80, \h1819, \hd7ec),
      W(\h0af5, \h3ae3, \h52a3, \h1e64),
      W(\h5bf3, \hadda, \h19e9, \hb27b)>>

\* Fq::zero and Fq::one
zero == <<U0, U0, U0, U0>>
one == R

-----------------------------------------------------------------------------
(***************************************************************************)
(* The bodies of the limb-level functions are straight-line code, one      *)
(* `let` per line.  Each is modelled as the list of its statements         *)
(*     << <<names bound>>, function, <<arguments>> >>                       *)
(* in program order, run over an environment that maps the names in scope  *)
(* to their values.  A `let` of a name already bound hides the older       *)
(* binding, as in Rust.  Names, functions and arguments are spelled as in  *)
(* the source; an argument that the source writes as an expression         *)
(* (`MODULUS.0[0] & borrow`) is bound by a statement of its own just       *)
(* before the statement that uses it.                                      *)
(***************************************************************************)

\* The statement's function f applied to the argument values v, as the
\* tuple of the values it returns.
Apply(f, v) ==
    CASE f = "mac" -> mac(v[1], v[2], v[3], v[4])
      [] f = "adc" -> adc(v[1], v[2], v[3])
      [] f = "sbb" -> sbb(v[1], v[2], v[3])
      [] f = "a.wrapping_mul(b)" -> <<WrappingMul(v[1], v[2])>>
      [] f = "a & b" -> <<And64(v[1], v[2])>>
      [] f = "a | b" -> <<Or64(v[1], v[2])>>
      [] f = "a >> 63" -> <<Shr63(v[1])>>
      [] f = "a << 1" -> <<Shl1(v[1])>>
      [] f = "(a << 1) | (b >> 63)" -> <<Or64(Shl1(v[1]), Shr63(v[2]))>>
      [] f = "u64::from(a == 0).wrapping_sub(1)" ->
            <<sbb(IF v[1] = U0 THEN U1 ELSE U0, U1, U0)[1]>>

\* The environment env with the names bound to the values.
Bind(env, names, values) ==
    IF Len(names) = 1 THEN (names[1] :> values[1]) @@ env
    ELSE (names[1] :> values[1]) @@ (names[2] :> values[2]) @@ env

\* One statement.
Step(env, stmt) ==
    Bind(env, stmt[1], Apply(stmt[2], [k \in DOMAIN stmt[3] |-> env[stmt[3][k]]]))

\* The statements code[lo..hi] in order.  (The range is halved so that n
\* statements nest log n deep.)
RECURSIVE Exec(_, _, _, _)
Exec(code, env, lo, hi) ==
    Seq2(env,
    IF lo > hi THEN env
    ELSE IF lo = hi THEN Step(env, code[lo])
    ELSE Exec(code, Exec(code, env, lo, (lo + hi) \div 2), ((lo + hi) \div 2) + 1, hi))

\* The whole body.
Run(code, env) == Exec(code, env, 1, Len(code))

\* The constants and literals the bodies name.
Globals ==
    ("0" :> U0) @@ ("INV" :> INV)
    @@ ("MODULUS.0[0]" :> MODULUS[1]) @@ ("MODULUS.0[1]" :> MODULUS[2])
    @@ ("MODULUS.0[2]" :> MODULUS[3]) @@ ("MODULUS.0[3]" :> MODULUS[4])

\* The limbs of the parameters self and rhs.
SelfLimbs(self) ==
    ("self.0[0]" :> self[1]) @@ ("self.0[1]" :> self[2])
    @@ ("self.0[2]" :> self[3]) @@ ("self.0[3]" :> self[4])

RhsLimbs(rhs) ==
    ("rhs.0[0]" :> rhs[1]) @@ ("rhs.0[1]" :> rhs[2])
    @@ ("rhs.0[2]" :> rhs[3]) @@ ("rhs.0[3]" :> rhs[4])

\* Fq([d0, d1, d2, d3]) from the values of four names of env.
Fq4(env, d0, d1, d2, d3) == <<env[d0], env[d1], env[d2], env[d3]>>

\* The body of Sub::sub.
subCode ==
    << << <<"d0", "borrow">>, "sbb", <<"self.0[0]", "rhs.0[0]", "0">> >>,
       << <<"d1", "borrow">>, "sbb", <<"self.0[1]", "rhs.0[1]", "borrow">> >>,
       << <<"d2", "borrow">>, "sbb", <<"self.0[2]", "rhs.0[2]", "borrow">> >>,
       << <<"d3", "borrow">>, "sbb", <<"self.0[3]", "rhs.0[3]", "borrow">> >>,
       << <<"MODULUS.0[0] & borrow">>, "a & b", <<"MODULUS.0[0]", "borrow">> >>,
       << <<"d0", "carry">>, "adc", <<"d0", "MODULUS.0[0] & borrow", "0">> >>,
       << <<"MODULUS.0[1] & borrow">>, "a & b", <<"MODULUS.0[1]", "borrow">> >>,
       << <<"d1", "carry">>, "adc", <<"d1", "MODULUS.0[1] & borrow", "carry">> >>,
       << <<"MODULUS.0[2] & borrow">>, "a & b", <<"MODULUS.0[2]", "borrow">> >>,
       << <<"d2", "carry">>, "adc", <<"d2", "MODULUS.0[2] & borrow", "carry">> >>,
       << <<"MODULUS.0[3] & borrow">>, "a & b", <<"MODULUS.0[3]", "borrow">> >>,
       << <<"d3", "_">>, "adc", <<"d3", "MODULUS.0[3] & borrow", "carry">> >> >>

\* sub without its second half: the difference is left as the borrow chain
\* produced it, the modulus is never added back.
subWrapping(self, rhs) ==
    Fq4(Exec(subCode, SelfLimbs(self) @@ RhsLimbs(rhs) @@ Globals, 1, 4),
        "d0", "d1", "d2", "d3")

\* impl Sub for Fq
sub(self, rhs) ==
    Fq4(Run(subCode, SelfLimbs(self) @@ RhsLimbs(rhs) @@ Globals), "d0", "d1", "d2", "d3")

\* The body of Add::add up to its last line.
addCode ==
    << << <<"d0", "carry">>, "adc", <<"self.0[0]", "rhs.0[0]", "0">> >>,
       << <<"d1", "carry">>, "adc", <<"self.0[1]", "rhs.0[1]", "carry">> >>,
       << <<"d2", "carry">>, "adc", <<"self.0[2]", "rhs.0[2]", "carry">> >>,
       << <<"d3", "_">>, "adc", <<"self.0[3]", "rhs.0[3]", "carry">> >> >>

\* The environment of Add::add before its last line.
addEnv(self, rhs) == Run(addCode, SelfLimbs(self) @@ RhsLimbs(rhs) @@ Globals)

\* The carry the last adc of Add::add returns, which the `_` discards.
addCarry(self, rhs) == addEnv(self, rhs)["_"]

\* impl Add for Fq: Fq([d0, d1, d2, d3]) - &MODULUS
add(self, rhs) == sub(Fq4(addEnv(self, rhs), "d0", "d1", "d2", "d3"), MODULUS)

\* The body of Neg::neg; its last line, Fq([d0 & mask, ...]), is the last four
\* statements.
negCode ==
    << << <<"d0", "borrow">>, "sbb", <<"MODULUS.0[0]", "self.0[0]", "0">> >>,
       << <<"d1", "borrow">>, "sbb", <<"MODULUS.0[1]", "self.0[1]", "borrow">> >>,
       << <<"d2", "borrow">>, "sbb", <<"MODULUS.0[2]", "self.0[2]", "borrow">> >>,
       << <<"d3", "_">>, "sbb", <<"MODULUS.0[3]", "self.0[3]", "borrow">> >>,
       << <<"self.0[0] | self.0[1]">>, "a | b", <<"self.0[0]", "self.0[1]">> >>,
       << <<"self.0[0] | self.0[1] | self.0[2]">>, "a | b", <<"self.0[0] | self.0[1]", "self.0[2]">> >>,
       << <<"self.0[0] | self.0[1] | self.0[2] | self.0[3]">>, "a | b", <<"self.0[0] | self.0[1] | self.0[2]", "self.0[3]">> >>,
       << <<"mask">>, "u64::from(a == 0).wrapping_sub(1)", <<"self.0[0] | self.0[1] | self.0[2] | self.0[3]">> >>,
       << <<"d0 & mask">>, "a & b", <<"d0", "mask">> >>,
       << <<"d1 & mask">>, "a & b", <<"d1", "mask">> >>,
       << <<"d2 & mask">>, "a & b", <<"d2", "mask">> >>,
       << <<"d3 & mask">>, "a & b", <<"d3", "mask">> >> >>

\* neg without the mask: the difference MODULUS - self as the borrow chain
\* leaves it.
negUnmasked(self) ==
    Fq4(Exec(negCode, SelfLimbs(self) @@ Globals, 1, 4), "d0", "d1", "d2", "d3")

\* impl Neg for Fq
neg(self) ==
    Fq4(Run(negCode, SelfLimbs(self) @@ Globals),
        "d0 & mask", "d1 & mask", "d2 & mask", "d3 & mask")

\* Fq::double
double(self) == add(self, self)

\* The body of Fq::montgomery_reduce up to its last line.
montgomery_reduce_code ==
    << << <<"k">>, "a.wrapping_mul(b)", <<"r0", "INV">> >>,
       << <<"_", "carry">>, "mac", <<"r0", "k", "MODULUS.0[0]", "0">> >>,
       << <<"r1", "carry">>, "mac", <<"r1", "k", "MODULUS.0[1]", "carry">> >>,
       << <<"r2", "carry">>, "mac", <<"r2", "k", "MODULUS.0[2]", "carry">> >>,
       << <<"r3", "carry">>, "mac", <<"r3", "k", "MODULUS.0[3]", "carry">> >>,
       << <<"r4", "carry2">>, "adc", <<"r4", "0", "carry">> >>,
       << <<"k">>, "a.wrapping_mul(b)", <<"r1", "INV">> >>,
       << <<"_", "carry">>, "mac", <<"r1", "k", "MODULUS.0[0]", "0">> >>,
       << <<"r2", "carry">>, "mac", <<"r2", "k", "MODULUS.0[1]", "carry">> >>,
       << <<"r3", "carry">>, "mac", <<"r3", "k", "MODULUS.0[2]", "carry">> >>,
       << <<"r4", "carry">>, "mac", <<"r4", "k", "MODULUS.0[3]", "carry">> >>,
       << <<"r5", "carry2">>, "adc", <<"r5", "carry2", "carry">> >>,
       << <<"k">>, "a.wrapping_mul(b)", <<"r2", "INV">> >>,
       << <<"_", "carry">>, "mac", <<"r2", "k", "MODULUS.0[0]", "0">> >>,
       << <<"r3", "carry">>, "mac", <<"r3", "k", "MODULUS.0[1]", "carry">> >>,
       << <<"r4", "carry">>, "mac", <<"r4", "k", "MODULUS.0[2]", "carry">> >>,
       << <<"r5", "carry">>, "mac", <<"r5", "k", "MODULUS.0[3]", "carry">> >>,
       << <<"r6", "carry2">>, "adc", <<"r6", "carry2", "carry">> >>,
       << <<"k">>, "a.wrapping_mul(b)", <<"r3", "INV">> >>,
       << <<"_", "carry">>, "mac", <<"r3", "k", "MODULUS.0[0]", "0">> >>,
       << <<"r4", "carry">>, "mac", <<"r4", "k", "MODULUS.0[1]", "carry">> >>,
       << <<"r5", "carry">>, "mac", <<"r5", "k", "MODULUS.0[2]", "carry">> >>,
       << <<"r6", "carry">>, "mac", <<"r6", "k", "MODULUS.0[3]", "carry">> >>,
       << <<"r7", "_">>, "adc", <<"r7", "carry2", "carry">> >> >>

\* Fq::montgomery_reduce: Fq([r4, r5, r6, r7]) - &MODULUS
montgomery_reduce(r0, r1, r2, r3, r4, r5, r6, r7) ==
    sub(Fq4(Run(montgomery_reduce_code,
                ("r0" :> r0) @@ ("r1" :> r1) @@ ("r2" :> r2) @@ ("r3" :> r3)
                @@ ("r4" :> r4) @@ ("r5" :> r5) @@ ("r6" :> r6) @@ ("r7" :> r7)
                @@ Globals),
            "r4", "r5", "r6", "r7"),
        MODULUS)

\* Fq::montgomery_reduce(r0, r1, r2, r3, r4, r5, r6, r7) with the values of
\* r0..r7 in env.
Reduce(env) ==
    montgomery_reduce(env["r0"], env["r1"], env["r2"], env["r3"],
                      env["r4"], env["r5"], env["r6"], env["r7"])

\* r0..r7 of env: the 512-bit integer handed to montgomery_reduce.
Wide(env) ==
    <<env["r0"], env["r1"], env["r2"], env["r3"],
      env["r4"], env["r5"], env["r6"], env["r7"]>>

\* The body of Mul::mul up to its last line: the schoolbook multiplication.
mulCode ==
    << << <<"r0", "carry">>, "mac", <<"0", "self.0[0]", "rhs.0[0]", "0">> >>,
       << <<"r1", "carry">>, "mac", <<"0", "self.0[0]", "rhs.0[1]", "carry">> >>,
       << <<"r2", "carry">>, "mac", <<"0", "self.0[0]", "rhs.0[2]", "carry">> >>,
       << <<"r3", "r4">>, "mac", <<"0", "self.0[0]", "rhs.0[3]", "carry">> >>,
       << <<"r1", "carry">>, "mac", <<"r1", "self.0[1]", "rhs.0[0]", "0">> >>,
       << <<"r2", "carry">>, "mac", <<"r2", "self.0[1]", "rhs.0[1]", "carry">> >>,
       << <<"r3", "carry">>, "mac", <<"r3", "self.0[1]", "rhs.0[2]", "carry">> >>,
       << <<"r4", "r5">>, "mac", <<"r4", "self.0[1]", "rhs.0[3]", "carry">> >>,
       << <<"r2", "carry">>, "mac", <<"r2", "self.0[2]", "rhs.0[0]", "0">> >>,
       << <<"r3", "carry">>, "mac", <<"r3", "self.0[2]", "rhs.0[1]", "carry">> >>,
       << <<"r4", "carry">>, "mac", <<"r4", "self.0[2]", "rhs.0[2]", "carry">> >>,
       << <<"r5", "r6">>, "mac", <<"r5", "self.0[2]", "rhs.0[3]", "carry">> >>,
       << <<"r3", "carry">>, "mac", <<"r3", "self.0[3]", "rhs.0[0]", "0">> >>,
       << <<"r4", "carry">>, "mac", <<"r4", "self.0[3]", "rhs.0[1]", "carry">> >>,
       << <<"r5", "carry">>, "mac", <<"r5", "self.0[3]", "rhs.0[2]", "carry">> >>,
       << <<"r6", "r7">>, "mac", <<"r6", "self.0[3]", "rhs.0[3]", "carry">> >> >>

\* The environment of Mul::mul before its last line.
mulEnv(self, rhs) == Run(mulCode, SelfLimbs(self) @@ RhsLimbs(rhs) @@ Globals)

\* impl Mul for Fq
mul(self, rhs) == Reduce(mulEnv(self, rhs))

\* The body of Fq::square up to its last line.
squareCode ==
    << << <<"r1", "carry">>, "mac", <<"0", "self.0[0]", "self.0[1]", "0">> >>,
       << <<"r2", "carry">>, "mac", <<"0", "self.0[0]", "self.0[2]", "carry">> >>,
       << <<"r3", "r4">>, "mac", <<"0", "self.0[0]", "self.0[3]", "carry">> >>,
       << <<"r3", "carry">>, "mac", <<"r3", "self.0[1]", "self.0[2]", "0">> >>,
       << <<"r4", "r5">>, "mac", <<"r4", "self.0[1]", "self.0[3]", "carry">> >>,
       << <<"r5", "r6">>, "mac", <<"r5", "self.0[2]", "self.0[3]", "0">> >>,
       << <<"r7">>, "a >> 63", <<"r6">> >>,
       << <<"r6">>, "(a << 1) | (b >> 63)", <<"r6", "r5">> >>,
       << <<"r5">>, "(a << 1) | (b >> 63)", <<"r5", "r4">> >>,
       << <<"r4">>, "(a << 1) | (b >> 63)", <<"r4", "r3">> >>,
       << <<"r3">>, "(a << 1) | (b >> 63)", <<"r3", "r2">> >>,
       << <<"r2">>, "(a << 1) | (b >> 63)", <<"r2", "r1">> >>,
       << <<"r1">>, "a << 1", <<"r1">> >>,
       << <<"r0", "carry">>, "mac", <<"0", "self.0[0]", "self.0[0]", "0">> >>,
       << <<"r1", "carry">>, "adc", <<"0", "r1", "carry">> >>,
       << <<"r2", "carry">>, "mac", <<"r2", "self.0[1]", "self.0[1]", "carry">> >>,
       << <<"r3", "carry">>, "adc", <<"0", "r3", "carry">> >>,
       << <<"r4", "carry">>, "mac", <<"r4", "self.0[2]", "self.0[2]", "carry">> >>,
       << <<"r5", "carry">>, "adc", <<"0", "r5", "carry">> >>,
       << <<"r6", "carry">>, "mac", <<"r6", "self.0[3]", "self.0[3]", "carry">> >>,
       << <<"r7", "_">>, "adc", <<"0", "r7", "carry">> >> >>

\* The environment of Fq::square before its last line.
squareEnv(self) == Run(squareCode, SelfLimbs(self) @@ Globals)

\* Fq::square
square(self) == Reduce(squareEnv(self))

\* impl From<u64> for Fq
from(val) == mul(<<val, U0, U0, U0>>, R2)

\* Option<Fq>: None is the empty tuple, Some(v) the tuple holding v.
None == <<>>
Some(v) == <<v>>

\* LittleEndian::read_u64 of the eight bytes of `bytes` that follow offset k.
read_u64(bytes, k) ==
    <<bytes[k + 1] + 256 * bytes[k + 2], bytes[k + 3] + 256 * bytes[k + 4],
      bytes[k + 5] + 256 * bytes[k + 6], bytes[k + 7] + 256 * bytes[k + 8]>>

\* LittleEndian::write_u64: the eight bytes of the u64 v.
write_u64(v) ==
    <<v[1] % 256, v[1] \div 256, v[2] % 256, v[2] \div 256,
      v[3] % 256, v[3] \div 256, v[4] % 256, v[4] \div 256>>

\* The limb comparison with the bound included: an input equal to the
\* modulus in all four limbs is let through.
RECURSIVE fieldCheckInclusive(_, _)
fieldCheckInclusive(tmp, i) ==
    IF i = 0 THEN Some(mul(tmp, R2))
    ELSE IF Lt64(tmp[i], MODULUS[i]) THEN Some(mul(tmp, R2))
    ELSE IF Lt64(MODULUS[i], tmp[i]) THEN None
    ELSE fieldCheckInclusive(tmp, i - 1)

\* The loop of from_bytes_vartime over the limbs i = 3, 2, 1, 0 (here 4..1).
RECURSIVE fieldCheck(_, _)
fieldCheck(tmp, i) ==
    IF i = 0 THEN None
    ELSE IF Lt64(tmp[i], MODULUS[i]) THEN Some(mul(tmp, R2))
    ELSE IF Lt64(MODULUS[i], tmp[i]) THEN None
    ELSE fieldCheck(tmp, i - 1)

\* Fq::from_bytes_vartime
from_bytes_vartime(bytes) ==
    fieldCheck(<<read_u64(bytes, 0), read_u64(bytes, 8),
                 read_u64(bytes, 16), read_u64(bytes, 24)>>, 4)

\* The bytes of the four limbs of tmp, in order.
write_limbs(tmp) ==
    write_u64(tmp[1]) \o write_u64(tmp[2]) \o write_u64(tmp[3]) \o write_u64(tmp[4])

\* into_bytes without the reduction out of Montgomery form: the limbs are
\* written as they are held.
into_bytes_raw(self) == write_limbs(self)

\* Fq::into_bytes
into_bytes(self) ==
    write_limbs(montgomery_reduce(self[1], self[2], self[3], self[4], U0, U0, U0, U0))

\* (e >> i) & 1 for a u64 e and 0 <= i < 64.
Bit(e, i) == (e[(i \div 16) + 1] \div (2 ^ (i % 16))) % 2

\* conditional_select with its two branches exchanged.
conditional_select_swapped(a, b, choice) == IF choice = 1 THEN a ELSE b

\* ConditionallySelectable::conditional_select: a when choice is 0, b when 1.
conditional_select(a, b, choice) == IF choice = 1 THEN b ELSE a

\* res.conditional_assign(&tmp, bit) with tmp = res * self.
powSelect(res, self, bit) == conditional_select(res, mul(res, self), bit)

\* One pass of the inner loop body of Fq::pow for the exponent bit `bit`.
powBody(res, self, bit) == powSelect(square(res), self, bit)

\* if bit == 1 { res.mul_assign(self); }
powVartimeSelect(res, self, bit) == IF bit = 1 THEN mul(res, self) ELSE res

\* One pass of the inner loop body of Fq::pow_vartime.
powVartimeBody(res, self, bit) == powVartimeSelect(square(res), self, bit)

\* A pass of pow that multiplies only when the exponent bit is set.
powOpsBranching(bit) ==
    IF bit = 1 THEN <<"square", "mul_assign", "conditional_assign">>
    ELSE <<"square", "conditional_assign">>

\* The field operations one pass of the inner loop of pow makes: the
\* squaring, the multiplication into tmp and the conditional assignment,
\* whatever the exponent bit.
powOps(bit) == <<"square", "mul_assign", "conditional_assign">>

\* Those one pass of the inner loop of pow_vartime makes: the squaring and,
\* under `if ((*e >> i) & 1) == 1`, the multiplication.
powVartimeOps(bit) ==
    IF bit = 1 THEN <<"square", "mul_assign">> ELSE <<"square">>

\* The inner loop of Fq::pow, `for i in (0..64).rev()`, over the limb e of
\* the exponent: its passes for i = hi - 1 down to lo, in that order.  (The
\* range is halved so that the 64 passes nest 6 deep.)
RECURSIVE powInner(_, _, _, _, _)
powInner(res, self, e, hi, lo) ==
    Seq2(res,
    IF hi = lo THEN res
    ELSE IF hi - lo = 1 THEN powBody(res, self, Bit(e, lo))
    ELSE powInner(powInner(res, self, e, hi, (hi + lo) \div 2),
                  self, e, (hi + lo) \div 2, lo))

\* The outer loop of Fq::pow, `for e in by.iter().rev()`, over the limbs
\* by[k - 1] down to by[0].
RECURSIVE powOuter(_, _, _, _)
powOuter(res, self, by, k) ==
    Seq2(res,
    IF k = 0 THEN res
    ELSE powOuter(powInner(res, self, by[k], 64, 0), self, by, k - 1))

\* Fq::pow
pow(self, by) == powOuter(one, self, by, 4)

\* The inner and outer loops of Fq::pow_vartime, as those of Fq::pow.
RECURSIVE powVartimeInner(_, _, _, _, _)
powVartimeInner(res, self, e, hi, lo) ==
    Seq2(res,
    IF hi = lo THEN res
    ELSE IF hi - lo = 1 THEN powVartimeBody(res, self, Bit(e, lo))
    ELSE powVartimeInner(powVartimeInner(res, self, e, hi, (hi + lo) \div 2),
                         self, e, (hi + lo) \div 2, lo))

RECURSIVE powVartimeOuter(_, _, _, _)
powVartimeOuter(res, self, by, k) ==
    Seq2(res,
    IF k = 0 THEN res
    ELSE powVartimeOuter(powVartimeInner(res, self, by[k], 64, 0), self, by, k - 1))

\* Fq::pow_vartime
pow_vartime(self, by) == powVartimeOuter(one, self, by, 4)

\* square_assign_multi with the range one short: `0..num_times - 1`.
RECURSIVE square_assign_short(_, _)
square_assign_short(n, num_times) ==
    Seq2(n,
    IF num_times <= 1 THEN n
    ELSE IF num_times = 2 THEN square(n)
    ELSE square_assign_short(square_assign_short(n, (num_times \div 2) + 1),
                             (num_times - (num_times \div 2))))

\* square_assign_multi, the helper of invert_nonzero: num_times squarings.
RECURSIVE square_assign_multi(_, _)
square_assign_multi(n, num_times) ==
    Seq2(n,
    IF num_times = 0 THEN n
    ELSE IF num_times = 1 THEN square(n)
    ELSE square_assign_multi(square_assign_multi(n, num_times \div 2),
                             num_times - (num_times \div 2)))

\* The statements of invert_nonzero, which work on field elements, are run
\* as those of the limb-level bodies are.
ApplyFq(f, v) ==
    CASE f = "a.square()" -> <<square(v[1])>>
      [] f = "a * b" -> <<mul(v[1], v[2])>>
      [] f = "*a" -> <<v[1]>>
      [] f = "square_assign_multi(&mut a, n)" -> <<square_assign_multi(v[1], v[2])>>
      [] f = "a.mul_assign(&b)" -> <<mul(v[1], v[2])>>

StepFq(env, stmt) ==
    Bind(env, stmt[1], ApplyFq(stmt[2], [k \in DOMAIN stmt[3] |-> env[stmt[3][k]]]))

RECURSIVE ExecFq(_, _, _, _)
ExecFq(code, env, lo, hi) ==
    Seq2(env,
    IF lo > hi THEN env
    ELSE IF lo = hi THEN StepFq(env, code[lo])
    ELSE ExecFq(code, ExecFq(code, env, lo, (lo + hi) \div 2), ((lo + hi) \div 2) + 1, hi))

\* The counts with one of them miscopied (8 squarings written as 9).
CountsMiscopied ==
    ("5" :> 5) @@ ("7" :> 7) @@ ("8" :> 9) @@ ("9" :> 9) @@ ("10" :> 10)
    @@ ("14" :> 14) @@ ("15" :> 15) @@ ("16" :> 16)

\* The numbers of squarings the body names.
Counts ==
    ("5" :> 5) @@ ("7" :> 7) @@ ("8" :> 8) @@ ("9" :> 9) @@ ("10" :> 10)
    @@ ("14" :> 14) @@ ("15" :> 15) @@ ("16" :> 16)

\* The body of Fq::invert_nonzero up to its last line.
invert_nonzero_code ==
    << << <<"t10">>, "*a", <<"self">> >>,
       << <<"t0">>, "a.square()", <<"t10">> >>,
       << <<"t1">>, "a * b", <<"t0", "t10">> >>,
       << <<"t16">>, "a.square()", <<"t0">> >>,
       << <<"t6">>, "a.square()", <<"t16">> >>,
       << <<"t5">>, "a * b", <<"t6", "t0">> >>,
       << <<"t0">>, "a * b", <<"t6", "t16">> >>,
       << <<"t12">>, "a * b", <<"t5", "t16">> >>,
       << <<"t2">>, "a.square()", <<"t6">> >>,
       << <<"t7">>, "a * b", <<"t5", "t6">> >>,
       << <<"t15">>, "a * b", <<"t0", "t5">> >>,
       << <<"t17">>, "a.square()", <<"t12">> >>,
       << <<"t1">>, "a.mul_assign(&b)", <<"t1", "t17">> >>,
       << <<"t3">>, "a * b", <<"t7", "t2">> >>,
       << <<"t8">>, "a * b", <<"t1", "t17">> >>,
       << <<"t4">>, "a * b", <<"t8", "t2">> >>,
       << <<"t9">>, "a * b", <<"t8", "t7">> >>,
       << <<"t7">>, "a * b", <<"t4", "t5">> >>,
       << <<"t11">>, "a * b", <<"t4", "t17">> >>,
       << <<"t5">>, "a * b", <<"t9", "t17">> >>,
       << <<"t14">>, "a * b", <<"t7", "t15">> >>,
       << <<"t13">>, "a * b", <<"t11", "t12">> >>,
       << <<"t12">>, "a * b", <<"t11", "t17">> >>,
       << <<"t15">>, "a.mul_assign(&b)", <<"t15", "t12">> >>,
       << <<"t16">>, "a.mul_assign(&b)", <<"t16", "t15">> >>,
       << <<"t3">>, "a.mul_assign(&b)", <<"t3", "t16">> >>,
       << <<"t17">>, "a.mul_assign(&b)", <<"t17", "t3">> >>,
       << <<"t0">>, "a.mul_assign(&b)", <<"t0", "t17">> >>,
       << <<"t6">>, "a.mul_assign(&b)", <<"t6", "t0">> >>,
       << <<"t2">>, "a.mul_assign(&b)", <<"t2", "t6">> >>,
       << <<"t0">>, "square_assign_multi(&mut a, n)", <<"t0", "8">> >>,
       << <<"t0">>, "a.mul_assign(&b)", <<"t0", "t17">> >>,
       << <<"t0">>, "square_assign_multi(&mut a, n)", <<"t0", "9">> >>,
       << <<"t0">>, "a.mul_assign(&b)", <<"t0", "t16">> >>,
       << <<"t0">>, "square_assign_multi(&mut a, n)", <<"t0", "9">> >>,
       << <<"t0">>, "a.mul_assign(&b)", <<"t0", "t15">> >>,
       << <<"t0">>, "square_assign_multi(&mut a, n)", <<"t0", "9">> >>,
       << <<"t0">>, "a.mul_assign(&b)", <<"t0", "t15">> >>,
       << <<"t0">>, "square_assign_multi(&mut a, n)", <<"t0", "7">> >>,
       << <<"t0">>, "a.mul_assign(&b)", <<"t0", "t14">> >>,
       << <<"t0">>, "square_assign_multi(&mut a, n)", <<"t0", "7">> >>,
       << <<"t0">>, "a.mul_assign(&b)", <<"t0", "t13">> >>,
       << <<"t0">>, "square_assign_multi(&mut a, n)", <<"t0", "10">> >>,
       << <<"t0">>, "a.mul_assign(&b)", <<"t0", "t12">> >>,
       << <<"t0">>, "square_assign_multi(&mut a, n)", <<"t0", "9">> >>,
       << <<"t0">>, "a.mul_assign(&b)", <<"t0", "t11">> >>,
       << <<"t0">>, "square_assign_multi(&mut a, n)", <<"t0", "8">> >>,
       << <<"t0">>, "a.mul_assign(&b)", <<"t0", "t8">> >>,
       << <<"t0">>, "square_assign_multi(&mut a, n)", <<"t0", "8">> >>,
       << <<"t0">>, "a.mul_assign(&b)", <<"t0", "t10">> >>,
       << <<"t0">>, "square_assign_multi(&mut a, n)", <<"t0", "14">> >>,
       << <<"t0">>, "a.mul_assign(&b)", <<"t0", "t9">> >>,
       << <<"t0">>, "square_assign_multi(&mut a, n)", <<"t0", "10">> >>,
       << <<"t0">>, "a.mul_assign(&b)", <<"t0", "t8">> >>,
       << <<"t0">>, "square_assign_multi(&mut a, n)", <<"t0", "15">> >>,
       << <<"t0">>, "a.mul_assign(&b)", <<"t0", "t7">> >>,
       << <<"t0">>, "square_assign_multi(&mut a, n)", <<"t0", "10">> >>,
       << <<"t0">>, "a.mul_assign(&b)", <<"t0", "t6">> >>,
       << <<"t0">>, "square_assign_multi(&mut a, n)", <<"t0", "8">> >>,
       << <<"t0">>, "a.mul_assign(&b)", <<"t0", "t5">> >>,
       << <<"t0">>, "square_assign_multi(&mut a, n)", <<"t0", "16">> >>,
       << <<"t0">>, "a.mul_assign(&b)", <<"t0", "t3">> >>,
       << <<"t0">>, "square_assign_multi(&mut a, n)", <<"t0", "8">> >>,
       << <<"t0">>, "a.mul_assign(&b)", <<"t0", "t2">> >>,
       << <<"t0">>, "square_assign_multi(&mut a, n)", <<"t0", "7">> >>,
       << <<"t0">>, "a.mul_assign(&b)", <<"t0", "t4">> >>,
       << <<"t0">>, "square_assign_multi(&mut a, n)", <<"t0", "9">> >>,
       << <<"t0">>, "a.mul_assign(&b)", <<"t0", "t2">> >>,
       << <<"t0">>, "square_assign_multi(&mut a, n)", <<"t0", "8">> >>,
       << <<"t0">>, "a.mul_assign(&b)", <<"t0", "t3">> >>,
       << <<"t0">>, "square_assign_multi(&mut a, n)", <<"t0", "8">> >>,
       << <<"t0">>, "a.mul_assign(&b)", <<"t0", "t2">> >>,
       << <<"t0">>, "square_assign_multi(&mut a, n)", <<"t0", "8">> >>,
       << <<"t0">>, "a.mul_assign(&b)", <<"t0", "t2">> >>,
       << <<"t0">>, "square_assign_multi(&mut a, n)", <<"t0", "8">> >>,
       << <<"t0">>, "a.mul_assign(&b)", <<"t0", "t2">> >>,
       << <<"t0">>, "square_assign_multi(&mut a, n)", <<"t0", "8">> >>,
       << <<"t0">>, "a.mul_assign(&b)", <<"t0", "t3">> >>,
       << <<"t0">>, "square_assign_multi(&mut a, n)", <<"t0", "8">> >>,
       << <<"t0">>, "a.mul_assign(&b)", <<"t0", "t2">> >>,
       << <<"t0">>, "square_assign_multi(&mut a, n)", <<"t0", "8">> >>,
       << <<"t0">>, "a.mul_assign(&b)", <<"t0", "t2">> >>,
       << <<"t0">>, "square_assign_multi(&mut a, n)", <<"t0", "5">> >>,
       << <<"t0">>, "a.mul_assign(&b)", <<"t0", "t1">> >>,
       << <<"t0">>, "square_assign_multi(&mut a, n)", <<"t0", "5">> >>,
       << <<"t0">>, "a.mul_assign(&b)", <<"t0", "t1">> >> >>

\* Fq::invert_nonzero: the body returns t0.
invert_nonzero(self) ==
    ExecFq(invert_nonzero_code, ("self" :> self) @@ Counts,
           1, Len(invert_nonzero_code))["t0"]

\* Fq::legendre_symbol_vartime: self^((q - 1) / 2)
legendre_symbol_vartime(self) ==
    pow_vartime(self, <<W(\h7fff, \hffff, \h8000, \h0000),
                        W(\ha9de, \hd201, \h7fff, \h2dff),
                        W(\h199c, \hec04, \h04d0, \hec02),
                        W(\h39f6, \hd3a9, \h94ce, \hbea4)>>)

\* The most passes of a `while` loop of sqrt_vartime the model follows; the
\* loops of the code have no bound of their own.
MaxWhile == 40

\* The inner loop of sqrt_vartime,
\*     while t2i != Self::one() { t2i = t2i.square(); i += 1; }
\* from <<t2i, i>>, followed for at most n passes.
RECURSIVE tsSearch(_, _)
tsSearch(found, n) ==
    Seq2(found,
    IF n = 0 \/ found[1] = one THEN found
    ELSE IF n = 1 THEN <<square(found[1]), found[2] + 1>>
    ELSE tsSearch(tsSearch(found, n \div 2), n - (n \div 2)))

\* The rest of a pass of the outer loop once the inner loop has found i:
\*     for _ in 0..(m - i - 1) { c = c.square(); }
\*     r *= &c; c = c.square(); t *= &c; m = i;
\* with c1 the value of c after the `for`, c2 after the second squaring.
tsAssign(st, i, c1, c2) ==
    [c |-> c2, r |-> mul(st.r, c1), t |-> mul(st.t, c2), m |-> i, i |-> i,
     n |-> st.n + 1, status |-> "run"]

\* The pass of the outer loop without `c = c.square()` before `t *= &c`.
tsSquareMissing(st, i, c1) == tsAssign(st, i, c1, c1)

tsSquare(st, i, c1) == tsAssign(st, i, c1, square(c1))

tsUpdate(st, i) == tsSquare(st, i, square_assign_multi(st.c, st.m - i - 1))

\* One pass of the outer loop of sqrt_vartime on [c, r, t, m], with found
\* the <<t2i, i>> the inner loop ends on.  `status` is "run" while the code
\* runs on; "underflow" when the u32 m - i - 1 is negative (a panic in a
\* build that checks overflow, 2^32 + m - i - 1 squarings in one that does
\* not); "search" when the inner loop is still looking for one() after
\* MaxWhile passes.
tsFound(st, found) ==
    IF found[1] # one THEN [st EXCEPT !.status = "search"]
    ELSE IF st.m - found[2] - 1 < 0
         THEN [st EXCEPT !.status = "underflow", !.i = found[2]]
    ELSE tsUpdate(st, found[2])

tsBody(st) == tsFound(st, tsSearch(<<square(st.t), 1>>, MaxWhile))

\* The outer loop `while t != Self::one()`, followed for at most n passes.
RECURSIVE tsLoop(_, _)
tsLoop(st, n) ==
    Seq2(st,
    IF n = 0 \/ st.status # "run" \/ st.t = one THEN st
    ELSE IF n = 1 THEN tsBody(st)
    ELSE tsLoop(tsLoop(st, n \div 2), n - (n \div 2)))

\* The state of sqrt_vartime as it enters the outer loop: c, r, t, m, with
\* i the last exponent found and n the passes made.
tsInit(self) ==
    [c |-> ROOT_OF_UNITY,
     r |-> pow_vartime(self, <<W(\h7fff, \h2dff, \h8000, \h0000),
                               W(\h04d0, \hec02, \ha9de, \hd201),
                               W(\h94ce, \hbea4, \h199c, \hec04),
                               W(\h0000, \h0000, \h39f6, \hd3a9)>>),
     t |-> pow_vartime(self, <<W(\hfffe, \h5bfe, \hffff, \hffff),
                               W(\h09a1, \hd805, \h53bd, \ha402),
                               W(\h299d, \h7d48, \h3339, \hd808),
                               W(\h0000, \h0000, \h73ed, \ha753)>>),
     m |-> S, i |-> 0, n |-> 0, status |-> "run"]

\* What sqrt_vartime returns when the outer loop ends in state st.  A run
\* that does not return (see tsFound) is <<status>>.
tsResult(st) ==
    IF st.status = "run" /\ st.t = one THEN Some(st.r)
    ELSE IF st.status = "run" THEN <<"loop">>
    ELSE <<st.status>>

\* The match of sqrt_vartime on the Legendre symbol.
sqrtMatch(self, legendre_symbol) ==
    IF legendre_symbol = zero THEN Some(self)
    ELSE IF legendre_symbol # one THEN None
    ELSE tsResult(tsLoop(tsInit(self), MaxWhile))

\* Fq::sqrt_vartime
sqrt_vartime(self) == sqrtMatch(self, legendre_symbol_vartime(self))

-----------------------------------------------------------------------------
(***************************************************************************)
(* The state: a caller of the field type.  a and b are the elements it     *)
(* holds; lhs and rhs are the operands of the last call, op its name (or,  *)
(* while a call is followed step by step, "<name>:<position>"), steps the  *)
(* number of calls made, opt the Option the last fallible call returned,   *)
(* bytes the byte array last decoded or encoded, by the exponent of an     *)
(* exponentiation, and pc and frame the position and the locals of a call  *)
(* that is followed step by step.                                          *)
(***************************************************************************)
VARIABLES a, b, lhs, rhs, op, steps, opt, bytes, by, pc, frame

vars == <<a, b, lhs, rhs, op, steps, opt, bytes, by, pc, frame>>

\* const LARGEST (the tests' largest element, limbs q - 1)
LARGEST ==
    <<W(\hffff, \hffff, \h0000, \h0000),
      W(\h53bd, \ha402, \hfffe, \h5bfe),
      W(\h3339, \hd808, \h09a1, \hd805),
      W(\h73ed, \ha753, \h299d, \h7d48)>>

\* The byte array test_from_bytes_vartime decodes to R2.
BytesR2 ==
    <<254, 255, 255, 255, 1, 0, 0, 0, 2, 72, 3, 0, 250, 183, 132, 88, 245, 79,
      188, 236, 239, 79, 140, 153, 111, 5, 197, 172, 89, 177, 36, 24>>

\* The byte array of -1, which test_from_bytes_vartime decodes.
BytesNegOne ==
    <<0, 0, 0, 0, 255, 255, 255, 255, 254, 91, 254, 255, 2, 164, 189, 83, 5,
      216, 161, 9, 8, 216, 57, 51, 72, 125, 157, 41, 83, 167, 237, 115>>

\* The byte array of the modulus, which test_from_bytes_vartime rejects.
BytesModulus ==
    <<1, 0, 0, 0, 255, 255, 255, 255, 254, 91, 254, 255, 2, 164, 189, 83, 5,
      216, 161, 9, 8, 216, 57, 51, 72, 125, 157, 41, 83, 167, 237, 115>>

\* The byte array that decodes to LARGEST.
BytesLargest ==
    <<193, 63, 138, 1, 149, 164, 8, 236, 159, 235, 33, 246, 115, 217, 77, 168,
      154, 177, 42, 186, 125, 208, 53, 193, 240, 223, 156, 249, 191, 32, 47, 88>>

\* The exponent q - 2 of test_invert_nonzero_is_pow.
q_minus_2 ==
    <<W(\hffff, \hfffe, \hffff, \hffff),
      W(\h53bd, \ha402, \hfffe, \h5bfe),
      W(\h3339, \hd808, \h09a1, \hd805),
      W(\h73ed, \ha753, \h299d, \h7d48)>>

\* limbs < q: the four limbs of v denote an integer strictly below that of
\* the four limbs of w, compared from the most significant limb down.
RECURSIVE LimbsBelow(_, _, _)
LimbsBelow(v, w, i) ==
    IF i = 0 THEN FALSE
    ELSE IF v[i] # w[i] THEN Lt64(v[i], w[i])
    ELSE LimbsBelow(v, w, i - 1)

Canonical(v) == LimbsBelow(v, MODULUS, 4)

\* The part of the state a call that returns at once leaves alone.
NoCall == by = <<U0, U0, U0, U0>> /\ pc = 0 /\ frame = <<>>

\* The most ring operations one behaviour applies.
MaxSteps == 2

\* a = a.op(b) for a ring operation.
Ring(name, result) ==
    /\ steps < MaxSteps
    /\ a' = result
    /\ lhs' = a /\ rhs' = b
    /\ op' = name /\ steps' = steps + 1
    /\ UNCHANGED <<b, opt, bytes, by, pc, frame>>

Neg == Ring("neg", neg(a))
Add == Ring("add", add(a, b))
Sub == Ring("sub", sub(a, b))
Double == Ring("double", double(a))
Mul == Ring("mul", mul(a, b))
Square == Ring("square", square(a))

\* core::mem::swap(&mut a, &mut b): the caller takes the other element up.
Swap ==
    /\ steps < MaxSteps
    /\ a' = b /\ b' = a
    /\ op' = "swap" /\ steps' = steps + 1
    /\ UNCHANGED <<lhs, rhs, opt, bytes, by, pc, frame>>

-----------------------------------------------------------------------------
(***************************************************************************)
(* Spec: the caller starts from elements the constructors return and       *)
(* applies the public operations one after another.                        *)
(***************************************************************************)

\* The elements a caller starts from: zero(), one(), From<u64> and
\* successful from_bytes_vartime calls.
LoadPairs ==
    { <<zero, one>>,
      <<from_bytes_vartime(BytesLargest)[1], from(UMax)>>,
      <<from(W(0, 0, 0, 4)), from_bytes_vartime(BytesNegOne)[1]>> }

\* The exponents handed to pow and pow_vartime.
Exps == { q_minus_2, <<UMax, UMax, UMax, UMax>> }

Init ==
    /\ \E p \in LoadPairs : a = p[1] /\ b = p[2]
    /\ lhs = a /\ rhs = b
    /\ op = "load" /\ steps = 0
    /\ opt = None /\ bytes = <<>>
    /\ NoCall

\* The exponentiations, the inversion and the square root are applied to
\* the elements the caller loaded.
Heavy(name, result) ==
    /\ op = "load"
    /\ a' = result
    /\ lhs' = a /\ rhs' = b
    /\ op' = name
    /\ UNCHANGED <<b, steps, opt, bytes, by, pc, frame>>

Pow == \E e \in Exps : Heavy("pow", pow(a, e))
PowVartime == \E e \in Exps : Heavy("pow_vartime", pow_vartime(a, e))
Invert == Heavy("invert_nonzero", invert_nonzero(a))

\* if let Some(r) = a.sqrt_vartime() { a = r }
Sqrt ==
    /\ op = "load"
    /\ opt' = sqrt_vartime(a)
    /\ a' = IF opt' = None THEN a ELSE opt'[1]
    /\ lhs' = a /\ rhs' = b
    /\ op' = "sqrt_vartime"
    /\ UNCHANGED <<b, steps, bytes, by, pc, frame>>

Next ==
    \/ Neg \/ Add \/ Sub \/ Double \/ Mul \/ Square \/ Swap
    \/ Pow \/ PowVartime \/ Invert \/ Sqrt

Spec == Init /\ [][Next]_vars

\* The sum rhs + lhs as add holds it before it subtracts the modulus.
RawSum(x, y) == Fq4(addEnv(x, y), "d0", "d1", "d2", "d3")

\* C1. Canonical-range invariant: starting from canonical elements (zero(),
\* one(), From<u64>, a successful from_bytes_vartime), every element that
\* neg, add, sub, double, mul, square, pow, pow_vartime, invert_nonzero and
\* a successful sqrt_vartime produce has limbs strictly below the modulus.
CanonicalRange ==
    /\ Canonical(a) /\ Canonical(b)
    /\ (opt # None => Canonical(opt[1]))

\* An addition whose limb-wise sum reached the modulus and was brought back
\* below it.
CanonicalRangeWitness ==
    /\ op = "add"
    /\ ~Canonical(RawSum(lhs, rhs))
    /\ Canonical(a)

-----------------------------------------------------------------------------
(***************************************************************************)
(* SpecCodec: the caller decodes byte arrays and encodes elements.         *)
(***************************************************************************)

\* The inputs of from_bytes_vartime are taken around the modulus: each limb
\* of the modulus moved by at most MaxDelta.
MaxDelta == 1

\* The u64 limb + d, wrapping, for a small integer d.
Nudge(limb, d) ==
    IF d < 0 THEN sbb(limb, <<-d, 0, 0, 0>>, U0)[1]
    ELSE adc(limb, <<d, 0, 0, 0>>, U0)[1]

NearModulus ==
    { write_limbs(<<Nudge(MODULUS[1], d[1]), Nudge(MODULUS[2], d[2]),
                    Nudge(MODULUS[3], d[3]), Nudge(MODULUS[4], d[4])>>) :
          d \in [1..4 -> (-MaxDelta)..MaxDelta] }

\* The three arrays above the modulus that test_from_bytes_vartime has
\* refused: the modulus with its byte 0, 22 or 31 raised by one.
BytesAboveModulus ==
    { [BytesModulus EXCEPT ![1] = 2],
      [BytesModulus EXCEPT ![23] = 58],
      [BytesModulus EXCEPT ![32] = 116] }

\* The byte arrays decoded: those around the modulus, the arrays of
\* test_from_bytes_vartime, all zeros and all ones.
ByteInputs ==
    NearModulus
    \cup BytesAboveModulus
    \cup { BytesR2, BytesNegOne, BytesModulus, BytesLargest,
           write_limbs(zero), write_limbs(one), write_limbs(<<UMax, UMax, UMax, UMax>>) }

\* The elements encoded.
CodecElems ==
    { zero, one, R2, LARGEST, neg(one), from(UMax), <<U1, U0, U0, U0>>,
      ROOT_OF_UNITY }

CodecInputs ==
    { <<zero, bs>> : bs \in ByteInputs }
    \cup { <<v, write_limbs(zero)>> : v \in CodecElems }

InitCodec ==
    /\ \E p \in CodecInputs : a = p[1] /\ bytes = p[2]
    /\ b = zero /\ lhs = a /\ rhs = zero
    /\ op = "load" /\ steps = 0
    /\ opt = None
    /\ NoCall

\* opt = Fq::from_bytes_vartime(bytes); if let Some(v) = opt { a = v }
FromBytes ==
    /\ steps < MaxSteps
    /\ opt' = from_bytes_vartime(bytes)
    /\ a' = IF opt' = None THEN a ELSE opt'[1]
    /\ lhs' = a
    /\ op' = "from_bytes_vartime" /\ steps' = steps + 1
    /\ UNCHANGED <<b, rhs, bytes, by, pc, frame>>

\* bytes = a.into_bytes()
IntoBytes ==
    /\ steps < MaxSteps
    /\ bytes' = into_bytes(a)
    /\ lhs' = a
    /\ op' = "into_bytes" /\ steps' = steps + 1
    /\ UNCHANGED <<a, b, rhs, opt, by, pc, frame>>

NextCodec == FromBytes \/ IntoBytes

SpecCodec == InitCodec /\ [][NextCodec]_vars

\* The 32 bytes x, read as a little-endian integer, are below the bytes y:
\* compared byte by byte from the most significant (the last) down.
RECURSIVE BytesBelow(_, _, _)
BytesBelow(x, y, k) ==
    IF k = 0 THEN FALSE
    ELSE IF x[k] # y[k] THEN x[k] < y[k]
    ELSE BytesBelow(x, y, k - 1)

BelowModulus(bs) == BytesBelow(bs, BytesModulus, 32)

\* C2. Encode/decode round trip: the bytes into_bytes emits for a canonical
\* element are a little-endian integer below q, and from_bytes_vartime
\* decodes them to Some of exactly the element encoded.
RoundTrip ==
    op = "into_bytes" =>
        /\ Len(bytes) = 32
        /\ BelowModulus(bytes)
        /\ from_bytes_vartime(bytes) = Some(lhs)

\* LARGEST has been encoded and the bytes decoded again.
RoundTripWitness ==
    /\ op = "from_bytes_vartime" /\ steps = 2
    /\ lhs = LARGEST /\ opt = Some(LARGEST)
    /\ bytes = into_bytes(LARGEST)

\* C3. Decode acceptance is exactly canonicality: from_bytes_vartime
\* returns None when the little-endian integer of its input is at or above
\* q and Some when it is below, and the element returned encodes to the
\* very bytes decoded (it is not a wrapped or truncated value).
DecodeCanonical ==
    op = "from_bytes_vartime" =>
        /\ (opt = None) <=> ~BelowModulus(bytes)
        /\ opt # None => (Canonical(opt[1]) /\ into_bytes(opt[1]) = bytes)

\* An input that exceeds the modulus in its low limb alone was refused.
DecodeCanonicalWitness ==
    /\ op = "from_bytes_vartime"
    /\ opt = None
    /\ bytes = write_limbs(<<Nudge(MODULUS[1], 1), MODULUS[2], MODULUS[3], MODULUS[4]>>)

-----------------------------------------------------------------------------
(***************************************************************************)
(* SpecRing: the caller applies one ring operation to a pair of elements.  *)
(***************************************************************************)

\* The elements From<u64> gives for 0..MaxSmall are among the operands.
MaxSmall == 3

\* The operands: small integers, the constants of the module and the
\* elements the tests use (LARGEST, the element with limbs 1, -1).
RingElems ==
    { from(W(0, 0, 0, k)) : k \in 0..MaxSmall }
    \cup { LARGEST, <<U1, U0, U0, U0>>, neg(one), R2, ROOT_OF_UNITY, from(UMax) }

InitRing ==
    /\ a \in RingElems /\ b \in RingElems
    /\ lhs = a /\ rhs = b
    /\ op = "load" /\ steps = 0
    /\ opt = None /\ bytes = <<>>
    /\ NoCall

\* One operation on the pair loaded.
MulPair == op = "load" /\ Mul
SquarePair == op = "load" /\ Square
AddPair == op = "load" /\ Add
DoublePair == op = "load" /\ Double
SubPair == op = "load" /\ Sub
NegPair == op = "load" /\ Neg

NextRing == MulPair \/ SquarePair \/ AddPair \/ DoublePair \/ SubPair \/ NegPair

SpecRing == InitRing /\ [][NextRing]_vars

\* Bit p (0 the least significant) of the little-endian integer of bs.
BitOf(bs, p) == (bs[(p \div 8) + 1] \div (2 ^ (p % 8))) % 2

\* One pass of the loop of test_multiplication:
\*     let tmp3 = tmp2; tmp2.add_assign(&tmp3); if b { tmp2.add_assign(&cur); }
daaBody(tmp2, cur, bit) ==
    IF bit = 1 THEN add(add(tmp2, tmp2), cur) ELSE add(tmp2, tmp2)

\* The passes of that loop for the bits hi - 1 down to lo of bs.
RECURSIVE daaRange(_, _, _, _, _)
daaRange(tmp2, cur, bs, hi, lo) ==
    Seq2(tmp2,
    IF hi = lo THEN tmp2
    ELSE IF hi - lo = 1 THEN daaBody(tmp2, cur, BitOf(bs, lo))
    ELSE daaRange(daaRange(tmp2, cur, bs, hi, (hi + lo) \div 2),
                  cur, bs, (hi + lo) \div 2, lo))

\* Double-and-add of y over the bits of the canonical integer x.into_bytes(),
\* from the most significant bit down.
DoubleAndAdd(x, y) == daaRange(zero, y, into_bytes(x), 256, 0)

\* The third factors the associative law is tried with.
Thirds == { R2, LARGEST, from(W(0, 0, 0, 3)) }

\* C4. Multiplication is the field product: mul(a, b) equals double-and-add
\* of b over the bits of a.into_bytes(); it is commutative and associative,
\* a * one() == a and a * zero() == zero().
MulIsProduct ==
    op = "mul" =>
        /\ a = DoubleAndAdd(lhs, rhs)
        /\ a = mul(rhs, lhs)
        /\ \A z \in Thirds : mul(a, z) = mul(lhs, mul(rhs, z))
        /\ rhs = one => a = lhs
        /\ rhs = zero => a = zero

\* LARGEST has been multiplied by R2.
MulIsProductWitness ==
    /\ op = "mul"
    /\ lhs = LARGEST /\ rhs = R2
    /\ a = DoubleAndAdd(lhs, rhs)
    /\ a # zero

\* C5. Squaring agrees with multiplication: square(a) returns the limbs of
\* a * a, and builds the same 512-bit product r0..r7 before the reduction.
SquareIsMul ==
    op = "square" =>
        /\ a = mul(lhs, lhs)
        /\ Wide(squareEnv(lhs)) = Wide(mulEnv(lhs, lhs))

\* LARGEST, whose cross products carry a bit across every limb, was squared.
SquareIsMulWitness ==
    /\ op = "square"
    /\ lhs = LARGEST
    /\ a = mul(LARGEST, LARGEST)

\* The sixteen 16-bit digits of the four limbs of v, and the limbs of
\* sixteen digits.
Digits(v) == v[1] \o v[2] \o v[3] \o v[4]

Limbs(d) == <<SubSeq(d, 1, 4), SubSeq(d, 5, 8), SubSeq(d, 9, 12), SubSeq(d, 13, 16)>>

\* The digits of x + y from digit k on, one digit longer than x and y.
RECURSIVE SumDigits(_, _, _, _)
SumDigits(x, y, k, carry) ==
    IF k > Len(x) THEN <<carry>>
    ELSE <<(x[k] + y[k] + carry) % 65536>>
         \o SumDigits(x, y, k + 1, (x[k] + y[k] + carry) \div 65536)

\* The digits of x - y from digit k on, for x >= y.
RECURSIVE DiffDigits(_, _, _, _)
DiffDigits(x, y, k, borrow) ==
    IF k > Len(x) THEN <<>>
    ELSE <<(x[k] - y[k] - borrow) % 65536>>
         \o DiffDigits(x, y, k + 1, IF x[k] - y[k] - borrow < 0 THEN 1 ELSE 0)

\* x < y on digits k down to 1.
RECURSIVE DigitsBelow(_, _, _)
DigitsBelow(x, y, k) ==
    IF k = 0 THEN FALSE
    ELSE IF x[k] # y[k] THEN x[k] < y[k]
    ELSE DigitsBelow(x, y, k - 1)

\* The integer s < 2q of 17 digits, reduced modulo q, as limbs.
ModQ(s) ==
    IF DigitsBelow(s, Digits(MODULUS) \o <<0>>, 17) THEN Limbs(s)
    ELSE Limbs(DiffDigits(s, Digits(MODULUS) \o <<0>>, 1, 0))

\* (x_limbs + y_limbs) mod q, on the integers the limbs denote.
AddModQ(x, y) == ModQ(SumDigits(Digits(x), Digits(y), 1, 0))

\* C10. Addition is exact modular addition: the carry out of the top limb
\* of the add-with-carry chain, which add discards, is 0, and add(a, b) has
\* the limbs of (a_limbs + b_limbs) mod q; LARGEST + LARGEST has the limbs
\* q - 2, LARGEST + (limbs 1) is zero(), and double(a) == a + a.
AddExact ==
    /\ op = "add" =>
        /\ addCarry(lhs, rhs) = U0
        /\ a = AddModQ(lhs, rhs)
        /\ (lhs = LARGEST /\ rhs = LARGEST) => a = q_minus_2
        /\ (lhs = LARGEST /\ rhs = <<U1, U0, U0, U0>>) => a = zero
    /\ op = "double" =>
        /\ a = add(lhs, lhs)
        /\ a = AddModQ(lhs, lhs)

\* LARGEST has been added to itself.
AddExactWitness ==
    /\ op = "add"
    /\ lhs = LARGEST /\ rhs = LARGEST
    /\ a = q_minus_2

\* C11. Additive group laws via sub and neg: (a + b) - b == a, -(-a) == a
\* and a + (-a) == zero(); -zero() is zero() (the mask keeps it from being
\* the modulus), a - a == zero() and zero() - a == -a.
GroupLaws ==
    /\ op = "add" => sub(a, rhs) = lhs
    /\ op = "neg" =>
        /\ neg(a) = lhs
        /\ add(lhs, a) = zero
        /\ sub(zero, lhs) = a
        /\ lhs = zero => a = zero
        /\ a # MODULUS
        /\ lhs = LARGEST => a = <<U1, U0, U0, U0>>
        /\ lhs = <<U1, U0, U0, U0>> => a = LARGEST
    /\ op = "sub" =>
        /\ lhs = rhs => a = zero
        /\ lhs = zero => a = neg(rhs)
        /\ add(a, rhs) = lhs

\* zero() has been negated.
GroupLawsWitness ==
    /\ op = "neg"
    /\ lhs = zero
    /\ a = zero

-----------------------------------------------------------------------------
(***************************************************************************)
(* SpecInv: the caller inverts an element; the body of invert_nonzero is   *)
(* followed statement by statement, pc the statement to run next and       *)
(* frame its locals.                                                       *)
(***************************************************************************)

\* The elements From<u64> gives for 2..MaxInv are among those inverted.
MaxInv == 3

\* The elements inverted: zero, one, -one, the elements of test_inversion
\* and test_invert_nonzero_is_pow (R2, R = one), LARGEST and small integers.
InvElems ==
    { zero, one, neg(one), R2, LARGEST }
    \cup { from(W(0, 0, 0, k)) : k \in 2..MaxInv }

InitInv ==
    /\ a \in InvElems
    /\ b = zero /\ lhs = a /\ rhs = zero
    /\ op = "load" /\ steps = 0
    /\ opt = None /\ bytes = <<>>
    /\ NoCall

\* a.invert_nonzero() is entered.
InvertCall ==
    /\ op = "load"
    /\ frame' = ("self" :> a) @@ Counts
    /\ pc' = 1
    /\ lhs' = a
    /\ op' = "invert_nonzero:body"
    /\ UNCHANGED <<a, b, rhs, steps, opt, bytes, by>>

\* The statement at pc is run.
InvertStep ==
    /\ op = "invert_nonzero:body"
    /\ pc <= Len(invert_nonzero_code)
    /\ frame' = StepFq(frame, invert_nonzero_code[pc])
    /\ pc' = pc + 1
    /\ UNCHANGED <<a, b, lhs, rhs, op, steps, opt, bytes, by>>

\* The body returns t0: a = a.invert_nonzero().
InvertReturn ==
    /\ op = "invert_nonzero:body"
    /\ pc > Len(invert_nonzero_code)
    /\ a' = frame["t0"]
    /\ op' = "invert_nonzero" /\ steps' = steps + 1
    /\ pc' = 0 /\ frame' = <<>>
    /\ UNCHANGED <<b, lhs, rhs, opt, bytes, by>>

NextInv == InvertCall \/ InvertStep \/ InvertReturn

SpecInv == InitInv /\ [][NextInv]_vars

\* C6. Inversion contract: for a # zero(), invert_nonzero(a) * a == one();
\* invert_nonzero(zero()) is zero(); one() and -one() are their own
\* inverses.
InvertContract ==
    op = "invert_nonzero" =>
        /\ a = invert_nonzero(lhs)
        /\ lhs # zero => mul(a, lhs) = one
        /\ lhs = zero => a = zero
        /\ lhs = one => a = one
        /\ lhs = neg(one) => a = neg(one)

\* R2 has been inverted, and the inverse is neither R2 nor zero.
InvertContractWitness ==
    /\ op = "invert_nonzero"
    /\ lhs = R2
    /\ mul(a, R2) = one
    /\ a # R2 /\ a # zero

\* C7. The addition chain of invert_nonzero computes the exponent q - 2:
\* invert_nonzero(a) has the limbs of a.pow(q - 2) and of
\* a.pow_vartime(q - 2), zero included.
InvertIsPow ==
    op = "invert_nonzero" =>
        /\ a = pow(lhs, q_minus_2)
        /\ a = pow_vartime(lhs, q_minus_2)

\* LARGEST has been inverted and the chain agrees with pow.
InvertIsPowWitness ==
    /\ op = "invert_nonzero"
    /\ lhs = LARGEST
    /\ a = pow(LARGEST, q_minus_2)
    /\ a # LARGEST

-----------------------------------------------------------------------------
(***************************************************************************)
(* SpecPow: the caller raises a to the exponent by with pow and with       *)
(* pow_vartime.  The two loops are followed side by side, one exponent bit *)
(* a step: pc is the number of bits still to come, frame the tuple         *)
(* <<res of pow, res of pow_vartime, the field operations pow has made so  *)
(* far, those pow_vartime has made>>.                                      *)
(***************************************************************************)

\* The exponents 0..MaxExp are among those tried.
MaxExp == 2

\* The bases: zero, one, an integer, LARGEST.
PowBases == { zero, one, from(W(0, 0, 0, 3)), LARGEST }

\* The exponents: small integers (0 among them), q - 2, and the exponent
\* with all 256 bits set.
PowExps ==
    { <<W(0, 0, 0, k), U0, U0, U0>> : k \in 0..MaxExp }
    \cup { q_minus_2, <<UMax, UMax, UMax, UMax>> }

InitPow ==
    /\ a \in PowBases /\ by \in PowExps
    /\ b = zero /\ lhs = a /\ rhs = a
    /\ op = "load" /\ steps = 0
    /\ opt = None /\ bytes = <<>>
    /\ pc = 0 /\ frame = <<>>

\* let mut res = Self::one(); in both functions.
PowCall ==
    /\ op = "load"
    /\ frame' = <<one, one, <<>>, <<>> >>
    /\ pc' = 256
    /\ op' = "pow:loop"
    /\ UNCHANGED <<a, b, lhs, rhs, steps, opt, bytes, by>>

\* The exponent bit the loops of pow and pow_vartime read when k bits are
\* still to come: ((e >> i) & 1) for e = by[(k - 1) / 64], i = (k - 1) % 64.
ExpBit(e, k) == Bit(e[((k - 1) \div 64) + 1], (k - 1) % 64)

\* One pass of the inner loop of each function.
PowStep ==
    /\ op = "pow:loop"
    /\ pc > 0
    /\ frame' = <<powBody(frame[1], a, ExpBit(by, pc)),
                  powVartimeBody(frame[2], a, ExpBit(by, pc)),
                  frame[3] \o powOps(ExpBit(by, pc)),
                  frame[4] \o powVartimeOps(ExpBit(by, pc))>>
    /\ pc' = pc - 1
    /\ UNCHANGED <<a, b, lhs, rhs, op, steps, opt, bytes, by>>

\* Both functions return res: lhs = a.pow(&by), rhs = a.pow_vartime(&by).
PowReturn ==
    /\ op = "pow:loop"
    /\ pc = 0
    /\ lhs' = frame[1] /\ rhs' = frame[2]
    /\ op' = "pow" /\ steps' = steps + 1
    /\ frame' = <<>>
    /\ UNCHANGED <<a, b, opt, bytes, by, pc>>

NextPow == PowCall \/ PowStep \/ PowReturn

SpecPow == InitPow /\ [][NextPow]_vars

\* x^n by n multiplications: the Montgomery form of x^n mod q.
RECURSIVE PowByMul(_, _)
PowByMul(x, n) == IF n = 0 THEN one ELSE mul(PowByMul(x, n - 1), x)

\* The exponent e is a small integer (one 16-bit digit).
SmallExp(e) == e = <<W(0, 0, 0, e[1][1]), U0, U0, U0>>

\* C8. The two exponentiations agree: for every base (zero() included)
\* and every exponent (0 included) a.pow(e) and a.pow_vartime(e) return the
\* same limbs, those of a^e; a^0 is one().
PowAgree ==
    /\ op = "pow:loop" => frame[1] = frame[2]
    /\ op = "pow" =>
        /\ lhs = rhs
        /\ lhs = pow(a, by) /\ rhs = pow_vartime(a, by)
        /\ SmallExp(by) => lhs = PowByMul(a, by[1][1])
        /\ by = <<U0, U0, U0, U0>> => lhs = one

\* LARGEST has been raised to q - 2 by both functions.
PowAgreeWitness ==
    /\ op = "pow"
    /\ a = LARGEST /\ by = q_minus_2
    /\ lhs = rhs
    /\ lhs # one /\ lhs # zero

\* The number of operations of one kind in a sequence of operations.
CountOps(ops, kind) == Cardinality({ k \in DOMAIN ops : ops[k] = kind })

\* The sequence square, multiply, select repeated n times.
FixedOrder(n) ==
    [k \in 1..(3 * n) |->
        <<"square", "mul_assign", "conditional_assign">>[((k - 1) % 3) + 1]]

\* The number of bits set among the exponent bits hi down to lo + 1 (in the
\* numbering of ExpBit).
RECURSIVE PopCount(_, _, _)
PopCount(e, hi, lo) ==
    IF hi = lo THEN 0
    ELSE IF hi - lo = 1 THEN ExpBit(e, hi)
    ELSE PopCount(e, hi, (hi + lo) \div 2) + PopCount(e, (hi + lo) \div 2, lo)

\* C12. Constant operation count of pow: whatever the base and the
\* exponent, the operations pow has made after n bits are the fixed
\* sequence square, multiply, select repeated n times, 256 squarings and
\* 256 multiplications in all; pow_vartime makes 256 squarings and as many
\* multiplications as the exponent has bits set.
PowOpCount ==
    op = "pow:loop" =>
        /\ frame[3] = FixedOrder(256 - pc)
        /\ CountOps(frame[4], "square") = 256 - pc
        /\ CountOps(frame[4], "mul_assign") = PopCount(by, 256, pc)
        /\ Len(frame[4]) = (256 - pc) + PopCount(by, 256, pc)
        /\ pc = 0 =>
            /\ CountOps(frame[3], "square") = 256
            /\ CountOps(frame[3], "mul_assign") = 256

\* Both loops have ended on the exponent q - 2: pow has multiplied 256
\* times, pow_vartime fewer.
PowOpCountWitness ==
    /\ op = "pow:loop" /\ pc = 0
    /\ a = LARGEST /\ by = q_minus_2
    /\ CountOps(frame[3], "mul_assign") = 256
    /\ CountOps(frame[4], "mul_assign") = PopCount(q_minus_2, 256, 0)
    /\ CountOps(frame[4], "mul_assign") < 256

-----------------------------------------------------------------------------
(***************************************************************************)
(* SpecSqrt: the caller takes the square root of a = rhs * b^2, where rhs  *)
(* is one() (a is a square) or ROOT_OF_UNITY (for b # 0, a is not a        *)
(* square: ROOT_OF_UNITY has order 2^32, so it is no square itself).  The  *)
(* loops of sqrt_vartime are followed pass by pass; frame holds the locals *)
(* c, r, t, m of the outer loop (st) and <<t2i, i>> of the inner (found).  *)
(***************************************************************************)

\* The elements From<u64> gives for 0..MaxRoot are among those squared.
MaxRoot == 2

SqrtRoots ==
    { from(W(0, 0, 0, k)) : k \in 0..MaxRoot }
    \cup { from(W(0, 0, 0, 7)), LARGEST, ROOT_OF_UNITY }

InitSqrt ==
    /\ b \in SqrtRoots /\ rhs \in { one, ROOT_OF_UNITY }
    /\ a = mul(rhs, square(b))
    /\ lhs = a
    /\ op = "load" /\ steps = 0
    /\ opt = None /\ bytes = <<>>
    /\ NoCall

\* sqrt_vartime from its entry to the outer loop, or to the return of the
\* first two arms of the match.
SqrtEnter(legendre_symbol) ==
    /\ op = "load"
    /\ IF legendre_symbol = zero
       THEN opt' = Some(a) /\ op' = "sqrt_vartime" /\ frame' = frame
       ELSE IF legendre_symbol # one
       THEN opt' = None /\ op' = "sqrt_vartime" /\ frame' = frame
       ELSE /\ opt' = opt
            /\ op' = "sqrt_vartime:while"
            /\ frame' = [st |-> tsInit(a), found |-> <<one, 0>>]
    /\ UNCHANGED <<a, b, lhs, rhs, steps, bytes, by, pc>>

SqrtCall == SqrtEnter(legendre_symbol_vartime(a))

\* while t != Self::one(): the test fails, Some(r) is returned.
SqrtReturn ==
    /\ op = "sqrt_vartime:while"
    /\ frame.st.t = one
    /\ opt' = Some(frame.st.r)
    /\ op' = "sqrt_vartime"
    /\ frame' = <<>>
    /\ UNCHANGED <<a, b, lhs, rhs, steps, bytes, by, pc>>

\* The test holds: let mut i = 1; let mut t2i = t.square();
SqrtPass ==
    /\ op = "sqrt_vartime:while"
    /\ frame.st.t # one
    /\ frame' = [frame EXCEPT !.found = <<square(frame.st.t), 1>>]
    /\ op' = "sqrt_vartime:search"
    /\ UNCHANGED <<a, b, lhs, rhs, steps, opt, bytes, by, pc>>

\* while t2i != Self::one() { t2i = t2i.square(); i += 1; }
SqrtSearch ==
    /\ op = "sqrt_vartime:search"
    /\ frame.found[1] # one
    /\ frame.found[2] < MaxWhile
    /\ frame' = [frame EXCEPT !.found = <<square(frame.found[1]), frame.found[2] + 1>>]
    /\ UNCHANGED <<a, b, lhs, rhs, op, steps, opt, bytes, by, pc>>

\* The position after the rest of the pass, which left the locals st.
SqrtAfter(st) ==
    /\ frame' = [frame EXCEPT !.st = st]
    /\ op' = IF st.status = "run" THEN "sqrt_vartime:while"
             ELSE "sqrt_vartime:" \o st.status

\* The inner loop has ended: the squarings of c and the four assignments.
SqrtUpdate ==
    /\ op = "sqrt_vartime:search"
    /\ frame.found[1] = one
    /\ SqrtAfter(tsFound(frame.st, frame.found))
    /\ UNCHANGED <<a, b, lhs, rhs, steps, opt, bytes, by, pc>>

NextSqrt == SqrtCall \/ SqrtReturn \/ SqrtPass \/ SqrtSearch \/ SqrtUpdate

SpecSqrt == InitSqrt /\ [][NextSqrt]_vars

\* C9. Square-root contract: if sqrt_vartime(a) returns Some(r) then
\* r * r == a; for a non-residue a it returns None; for a nonzero residue
\* it returns Some; sqrt_vartime(zero()) is Some(zero()).  (The loops are
\* followed to their end: no pass stops at the bound MaxWhile or at an
\* underflow of m - i - 1.)
SqrtContract ==
    /\ op = "sqrt_vartime" =>
        /\ opt = sqrt_vartime(a)
        /\ opt # None => mul(opt[1], opt[1]) = a
        /\ (b # zero /\ rhs = ROOT_OF_UNITY) => opt = None
        /\ (b # zero /\ rhs = one) => opt # None
        /\ a = zero => opt = Some(zero)
    /\ op = "sqrt_vartime:search" =>
        (frame.found[1] = one \/ frame.found[2] < MaxWhile)
    /\ op # "sqrt_vartime:underflow"

\* The root of 49 has been found by passes of the outer loop.
SqrtContractWitness ==
    /\ op = "sqrt_vartime"
    /\ a = from(W(0, 0, 0, 49))
    /\ opt # None
    /\ mul(opt[1], opt[1]) = a
    /\ opt[1] # a

\* t squared j times is not one() for any j in 1..(i - 1).
NoEarlierOne(t, i) == \A j \in 1..(i - 1) : square_assign_multi(t, j) # one

\* C13. The Tonelli-Shanks loop is bounded and free of underflow: for a
\* nonzero residue the inner search stays below m and ends on the least
\* i >= 1 with t squared i times equal to one(), so m - i - 1 does not
\* underflow; m decreases on every pass (after n passes m <= S - n) and the
\* outer loop makes at most S passes.
SqrtBounded ==
    /\ op # "sqrt_vartime:underflow"
    /\ op = "sqrt_vartime:search" =>
        /\ 1 <= frame.found[2] /\ frame.found[2] < frame.st.m
        /\ frame.found[1] = square_assign_multi(frame.st.t, frame.found[2])
        /\ frame.found[1] = one => NoEarlierOne(frame.st.t, frame.found[2])
        /\ frame.st.n < S
    /\ op = "sqrt_vartime:while" =>
        /\ frame.st.n <= S
        /\ 1 <= frame.st.m /\ frame.st.m <= S - frame.st.n
        /\ frame.st.n > 0 => frame.st.m = frame.st.i

\* The outer loop has ended after more than twenty passes.
SqrtBoundedWitness ==
    /\ op = "sqrt_vartime:while"
    /\ frame.st.t = one
    /\ frame.st.n > 20
    /\ frame.st.m < S - 20

-----------------------------------------------------------------------------
(***************************************************************************)
(* SpecReduce: the caller multiplies a by b, or encodes a; the call of     *)
(* montgomery_reduce either makes is followed statement by statement, pc   *)
(* the statement to run next and frame its locals.                         *)
(***************************************************************************)

\* The elements From<u64> gives for 0..MaxReduced are among the operands.
MaxReduced == 1

\* The operands: zero, one, the largest element, the element with limbs 1,
\* and the constants R2 and ROOT_OF_UNITY.
ReduceElems ==
    { from(W(0, 0, 0, k)) : k \in 0..MaxReduced }
    \cup { LARGEST, <<U1, U0, U0, U0>>, R2, ROOT_OF_UNITY }

InitReduce ==
    /\ a \in ReduceElems /\ b \in ReduceElems
    /\ lhs = a /\ rhs = b
    /\ op = "load" /\ steps = 0
    /\ opt = None /\ bytes = <<>>
    /\ NoCall

\* The locals of montgomery_reduce on entry with the arguments T.
ReduceEnv(T) ==
    ("r0" :> T[1]) @@ ("r1" :> T[2]) @@ ("r2" :> T[3]) @@ ("r3" :> T[4])
    @@ ("r4" :> T[5]) @@ ("r5" :> T[6]) @@ ("r6" :> T[7]) @@ ("r7" :> T[8])
    @@ Globals

\* The arguments Mul::mul and into_bytes hand to montgomery_reduce.
MulArgs(x, y) == Wide(mulEnv(x, y))

BytesArgs(x) == <<x[1], x[2], x[3], x[4], U0, U0, U0, U0>>

\* a * b has run its schoolbook multiplication and enters montgomery_reduce.
ReduceCallMul ==
    /\ op = "load"
    /\ frame' = ReduceEnv(MulArgs(a, b))
    /\ pc' = 1
    /\ op' = "mul:montgomery_reduce"
    /\ UNCHANGED <<a, b, lhs, rhs, steps, opt, bytes, by>>

\* a.into_bytes() enters montgomery_reduce.
ReduceCallBytes ==
    /\ op = "load"
    /\ frame' = ReduceEnv(BytesArgs(a))
    /\ pc' = 1
    /\ op' = "into_bytes:montgomery_reduce"
    /\ UNCHANGED <<a, b, lhs, rhs, steps, opt, bytes, by>>

Reducing == op \in { "mul:montgomery_reduce", "into_bytes:montgomery_reduce" }

\* The statement at pc is run.
ReduceStep ==
    /\ Reducing
    /\ pc <= Len(montgomery_reduce_code)
    /\ frame' = Step(frame, montgomery_reduce_code[pc])
    /\ pc' = pc + 1
    /\ UNCHANGED <<a, b, lhs, rhs, op, steps, opt, bytes, by>>

\* Fq([r4, r5, r6, r7]) - &MODULUS is returned, into lhs.
ReduceReturn ==
    /\ Reducing
    /\ pc > Len(montgomery_reduce_code)
    /\ lhs' = sub(Fq4(frame, "r4", "r5", "r6", "r7"), MODULUS)
    /\ op' = IF op = "mul:montgomery_reduce" THEN "mul" ELSE "into_bytes"
    /\ steps' = steps + 1
    /\ pc' = 0
    /\ UNCHANGED <<a, b, rhs, opt, bytes, by, frame>>

NextReduce == ReduceCallMul \/ ReduceCallBytes \/ ReduceStep \/ ReduceReturn

SpecReduce == InitReduce /\ [][NextReduce]_vars

\* The bytes of a sequence of 16-bit digits, least significant first.
DigitBytes(d) ==
    [k \in 1..(2 * Len(d)) |->
        IF k % 2 = 1 THEN d[(k + 1) \div 2] % 256 ELSE d[k \div 2] \div 256]

\* The sum of the products x[i] * y[k + 1 - i] for i from lo to hi: the
\* part of column k of the schoolbook product of x and y.
RECURSIVE ColumnPart(_, _, _, _, _)
ColumnPart(x, y, k, lo, hi) ==
    IF lo > hi THEN 0
    ELSE IF lo = hi
         THEN (IF k + 1 - lo \in 1..Len(y) THEN x[lo] * y[k + 1 - lo] ELSE 0)
    ELSE ColumnPart(x, y, k, lo, (lo + hi) \div 2)
         + ColumnPart(x, y, k, ((lo + hi) \div 2) + 1, hi)

\* The bytes of the integer t + x * y from byte k on, t having n bytes and
\* the result n + 1.
RECURSIVE MulAddFrom(_, _, _, _, _)
MulAddNext(x, y, t, k, s) ==
    <<s % 256>> \o MulAddFrom(x, y, t, k + 1, s \div 256)

MulAddFrom(x, y, t, k, carry) ==
    IF k > Len(t) THEN <<carry>>
    ELSE MulAddNext(x, y, t, k, ColumnPart(x, y, k, 1, Len(x)) + t[k] + carry)

\* The integer T + m * q, as 65 bytes.
TPlusMQ(T, m) ==
    MulAddFrom(DigitBytes(Digits(m)), DigitBytes(Digits(MODULUS)),
               DigitBytes(T[1] \o T[2] \o T[3] \o T[4] \o T[5] \o T[6] \o T[7] \o T[8]),
               1, 0)

\* The arguments of the call followed.
ReduceArgs ==
    IF op \in { "mul:montgomery_reduce", "mul" } THEN MulArgs(a, b)
    ELSE BytesArgs(a)

\* The k of round j (1..4) of montgomery_reduce on the arguments T.
RoundK(T, j) == Exec(montgomery_reduce_code, ReduceEnv(T), 1, 6 * j - 5)["k"]

\* m = k1 + k2 * 2^64 + k3 * 2^128 + k4 * 2^192.
ReduceM(T) == <<RoundK(T, 1), RoundK(T, 2), RoundK(T, 3), RoundK(T, 4)>>

\* 2q, as 17 digits.
TwiceModulus == SumDigits(Digits(MODULUS), Digits(MODULUS), 1, 0)

\* What holds of r4..r7 = r when the four rounds have run on T.
ReducedExactly(T, r) ==
    /\ TPlusMQ(T, ReduceM(T))
         = [k \in 1..32 |-> 0] \o DigitBytes(Digits(r)) \o <<0>>
    /\ DigitsBelow(Digits(r) \o <<0>>, TwiceModulus, 17)

\* C14. Montgomery reduction is exact: on the product of two canonical
\* elements, or a canonical element padded with four zero limbs, the low
\* limb each round discards is zero, the carry discarded from the last adc
\* is 0, r4..r7 after the four rounds is (T + m * q) / 2^256 with m the
\* four k and is below 2q, and the limbs returned are that value reduced
\* modulo q, below q.
ReduceExact ==
    /\ (Reducing /\ pc \in { 3, 9, 15, 21 }) => frame["_"] = U0
    /\ (Reducing /\ pc = Len(montgomery_reduce_code) + 1) =>
        /\ frame["_"] = U0
        /\ ReducedExactly(ReduceArgs, Fq4(frame, "r4", "r5", "r6", "r7"))
    /\ op \in { "mul", "into_bytes" } =>
        /\ Canonical(lhs)
        /\ lhs = ModQ(Digits(Fq4(frame, "r4", "r5", "r6", "r7")) \o <<0>>)
        /\ lhs = Reduce(ReduceEnv(ReduceArgs))
    /\ op = "mul" => lhs = mul(a, b)
    /\ op = "into_bytes" => write_limbs(lhs) = into_bytes(a)

\* The product LARGEST * LARGEST has been reduced, and the subtraction of
\* the modulus changed r4..r7.
ReduceExactWitness ==
    /\ op = "mul"
    /\ a = LARGEST /\ b = LARGEST
    /\ lhs = mul(LARGEST, LARGEST)
    /\ lhs # Fq4(frame, "r4", "r5", "r6", "r7")
=============================================================================
